---- MODULE Spec2Model ----
(***************************************************************************)
(* Model of the book / reading-diary repository (BookManager) with its    *)
(* entity model (Book, Diary) and its JSON persistence.                    *)
(*                                                                         *)
(* A Python dict is modelled as a sequence of <<key, value>> entries in    *)
(* insertion order.  A datetime is a record [day, time]: day is the        *)
(* calendar date, time the time of day (0 = midnight).  The data file is   *)
(* a record [exists, parses, data].                                        *)
(***************************************************************************)
EXTENDS Integers, Sequences, FiniteSets, TLC

VARIABLES books, diaries, file, clock, fails, last

vars == <<books, diaries, file, clock, fails, last>>

(***************************************************************************)
(* Bounds                                                                  *)
(***************************************************************************)
\* most diaries held in memory at once, over all books
MaxDiaries == 2
\* most Diary objects constructed without an explicit date
MaxClock == 1
\* most save_data calls whose file write fails
MaxFails == 1

(***************************************************************************)
(* Input domains                                                           *)
(***************************************************************************)
BookIds == {"b1", "b2"}
DiaryIds == {"d1", "d2"}

\* Diary.DATE_FORMAT "%Y-%m-%d": the text strftime produces for each day
DayStr == <<"2024-05-01", "2024-05-02">>
Days == DOMAIN DayStr
\* the calendar day on which the program runs
Today == Len(DayStr)

\* the date argument left out (None)
NoDate == [day |-> 0, time |-> 0]
\* dates a caller supplies: a calendar day at midnight
ExplicitDates == {[day |-> d, time |-> 0] : d \in Days}
\* datetime.now(): later at every call, never exactly midnight
Now == [day |-> Today, time |-> clock + 1]

(***************************************************************************)
(* Python dict, in insertion order                                         *)
(***************************************************************************)
DictKeys(d) == {d[i][1] : i \in DOMAIN d}

DictHas(d, k) == k \in DictKeys(d)

DictIndex(d, k) == CHOOSE i \in DOMAIN d : d[i][1] = k

DictGet(d, k) == d[DictIndex(d, k)][2]

\* d[k] = v that adds an entry without looking for the key
DictSet_Append(d, k, v) == Append(d, <<k, v>>)

\* d[k] = v that moves an existing key to the end
DictSet_MoveToEnd(d, k, v) ==
    Append(SelectSeq(d, LAMBDA e : e[1] # k), <<k, v>>)

\* d[k] = v: an existing key keeps its position, a new key goes last
DictSet(d, k, v) ==
    IF DictHas(d, k)
    THEN [d EXCEPT ![DictIndex(d, k)] = <<k, v>>]
    ELSE Append(d, <<k, v>>)

\* del d[k]
DictDel(d, k) ==
    LET i == DictIndex(d, k)
    IN  SubSeq(d, 1, i - 1) \o SubSeq(d, i + 1, Len(d))

DictValues(d) == [i \in DOMAIN d |-> d[i][2]]

\* del lst[i]
ListDel(lst, i) == SubSeq(lst, 1, i - 1) \o SubSeq(lst, i + 1, Len(lst))

(***************************************************************************)
(* Python str: the characters of each text the model uses, str.lower and   *)
(* the substring test "in"                                                 *)
(***************************************************************************)
Chars(str) ==
    CASE str = ""             -> <<>>
      [] str = "Dune"         -> <<"D", "u", "n", "e">>
      [] str = "Dune Messiah" -> <<"D", "u", "n", "e", " ", "M", "e", "s", "s", "i", "a", "h">>
      [] str = "Emma"         -> <<"E", "m", "m", "a">>
      [] str = "Herbert"      -> <<"H", "e", "r", "b", "e", "r", "t">>
      [] str = "Austen"       -> <<"A", "u", "s", "t", "e", "n">>
      [] str = "SF"           -> <<"S", "F">>
      [] str = "a Gem"        -> <<"a", " ", "G", "e", "m">>
      [] str = "Great start"  -> <<"G", "r", "e", "a", "t", " ", "s", "t", "a", "r", "t">>
      [] str = "The END"      -> <<"T", "h", "e", " ", "E", "N", "D">>
      [] str = "dune"         -> <<"d", "u", "n", "e">>
      [] str = "AUSTEN"       -> <<"A", "U", "S", "T", "E", "N">>
      [] str = "sf"           -> <<"s", "f">>
      [] str = "Gem"          -> <<"G", "e", "m">>
      [] str = "e"            -> <<"e">>
      [] str = "T"            -> <<"T">>
      [] str = "great"        -> <<"g", "r", "e", "a", "t">>
      [] str = "END"          -> <<"E", "N", "D">>
      [] str = "zz"           -> <<"z", "z">>

UpperCase ==
    <<"A", "B", "C", "D", "E", "F", "G", "H", "I", "J", "K", "L", "M",
      "N", "O", "P", "Q", "R", "S", "T", "U", "V", "W", "X", "Y", "Z">>

LowerCase ==
    <<"a", "b", "c", "d", "e", "f", "g", "h", "i", "j", "k", "l", "m",
      "n", "o", "p", "q", "r", "s", "t", "u", "v", "w", "x", "y", "z">>

\* str.lower(), character by character
Lower(chars) ==
    [i \in DOMAIN chars |->
        IF \E k \in DOMAIN UpperCase : UpperCase[k] = chars[i]
        THEN LowerCase[CHOOSE k \in DOMAIN UpperCase : UpperCase[k] = chars[i]]
        ELSE chars[i]]

\* sub in text
Contains(sub, text) ==
    \E i \in 0..(Len(text) - Len(sub)) : SubSeq(text, i + 1, i + Len(sub)) = sub

(***************************************************************************)
(* Entity model (models.py)                                                *)
(***************************************************************************)
\* Book.__init__; uuid is the value uuid4() yields when book_id is empty
Book(title, author, published_year, genre, memo, book_id, uuid) ==
    [id             |-> IF book_id # "" THEN book_id ELSE uuid,
     title          |-> title,
     author         |-> author,
     published_year |-> published_year,
     genre          |-> genre,
     memo           |-> memo]

\* Book.to_dict
BookToDict(b) ==
    [id             |-> b.id,
     title          |-> b.title,
     author         |-> b.author,
     published_year |-> b.published_year,
     genre          |-> b.genre,
     memo           |-> b.memo]

\* Book.from_dict raises KeyError unless these keys are present
BookDictOk(data) == {"title", "author", "published_year", "id"} \subseteq DOMAIN data

\* Book.from_dict; the ids stored in a file are never empty
BookFromDict(data) ==
    Book(data.title, data.author, data.published_year,
         IF "genre" \in DOMAIN data THEN data.genre ELSE "",
         IF "memo" \in DOMAIN data THEN data.memo ELSE "",
         data.id, data.id)

\* Diary.__init__; now is datetime.now(), uuid the value uuid4() yields
Diary(book_id, content, date, diary_id, now, uuid) ==
    [id      |-> IF diary_id # "" THEN diary_id ELSE uuid,
     book_id |-> book_id,
     date    |-> IF date # NoDate THEN date ELSE now,
     content |-> content]

\* date.strftime(DATE_FORMAT): the calendar day only, the time is dropped
Strftime(dt) == DayStr[dt.day]

\* datetime.strptime raises ValueError on any other text
StrptimeOk(s) == \E d \in Days : DayStr[d] = s

\* datetime.strptime(s, DATE_FORMAT): midnight of the day
Strptime(s) == [day |-> CHOOSE d \in Days : DayStr[d] = s, time |-> 0]

\* Diary.to_dict
DiaryToDict(d) ==
    [id      |-> d.id,
     book_id |-> d.book_id,
     date    |-> Strftime(d.date),
     content |-> d.content]

\* Diary.from_dict raises KeyError or ValueError otherwise
DiaryDictOk(data) ==
    /\ {"date", "book_id", "content", "id"} \subseteq DOMAIN data
    /\ StrptimeOk(data.date)

\* Diary.from_dict
DiaryFromDict(data) ==
    Diary(data.book_id, data.content, Strptime(data.date), data.id,
          Now, data.id)

(***************************************************************************)
(* Persistence (book_manager.py save_data / load_data)                     *)
(***************************************************************************)
EmptyData == [books |-> <<>>, diaries |-> <<>>]

\* no file at the path
NoFile == [exists |-> FALSE, parses |-> FALSE, data |-> EmptyData]

\* a file cut short by an interrupted write: json.load raises on it
TruncatedFile == [exists |-> TRUE, parses |-> FALSE, data |-> EmptyData]

\* the document save_data builds from the two dicts
DumpData(bks, drs) ==
    [books   |-> [i \in DOMAIN bks |-> <<bks[i][1], BookToDict(bks[i][2])>>],
     diaries |-> [i \in DOMAIN drs |->
                    <<drs[i][1],
                      [j \in DOMAIN drs[i][2] |-> DiaryToDict(drs[i][2][j])]>>]]

\* outcomes of the file write of save_data
IoOutcomes == {"ok", "open_fails", "write_fails"}

\* save_data that leaves the diaries out of the document
save_data_BooksOnly(bks, drs, f, io) ==
    CASE io = "ok" ->
           [file |-> [exists |-> TRUE, parses |-> TRUE, data |-> DumpData(bks, <<>>)],
            ret |-> TRUE]
      [] io = "open_fails" ->
           [file |-> f, ret |-> FALSE]
      [] io = "write_fails" ->
           [file |-> TruncatedFile, ret |-> FALSE]

\* save_data: open(file, "w") truncates, then json.dump writes the document;
\* any exception is caught and reported as False
save_data(bks, drs, f, io) ==
    CASE io = "ok" ->
           [file |-> [exists |-> TRUE, parses |-> TRUE, data |-> DumpData(bks, drs)],
            ret |-> TRUE]
      [] io = "open_fails" ->
           [file |-> f, ret |-> FALSE]
      [] io = "write_fails" ->
           [file |-> TruncatedFile, ret |-> FALSE]

\* the comprehension building self.books raises on no record
LoadBooksOk(f) == \A i \in DOMAIN f.data.books : BookDictOk(f.data.books[i][2])

\* the comprehension building self.diaries raises on no record
LoadDiariesOk(f) ==
    \A i \in DOMAIN f.data.diaries :
        \A j \in DOMAIN f.data.diaries[i][2] : DiaryDictOk(f.data.diaries[i][2][j])

LoadBooks(f) ==
    [i \in DOMAIN f.data.books |->
        <<f.data.books[i][1], BookFromDict(f.data.books[i][2])>>]

LoadDiaries(f) ==
    [i \in DOMAIN f.data.diaries |->
        <<f.data.diaries[i][1],
          [j \in DOMAIN f.data.diaries[i][2] |->
              DiaryFromDict(f.data.diaries[i][2][j])]>>]

\* load_data: self.books is assigned before the diaries are decoded
load_data(bks, drs, f) ==
    IF ~f.exists THEN [books |-> bks, diaries |-> drs, ret |-> FALSE]
    ELSE IF ~f.parses THEN [books |-> bks, diaries |-> drs, ret |-> FALSE]
    ELSE IF ~LoadBooksOk(f) THEN [books |-> bks, diaries |-> drs, ret |-> FALSE]
    ELSE IF ~LoadDiariesOk(f)
         THEN [books |-> LoadBooks(f), diaries |-> drs, ret |-> FALSE]
    ELSE [books |-> LoadBooks(f), diaries |-> LoadDiaries(f), ret |-> TRUE]

\* BookManager.__init__: empty dicts, then load_data
BookManager(f) == load_data(<<>>, <<>>, f)

(***************************************************************************)
(* Repository operations (book_manager.py).  Each operator is the method   *)
(* applied to the dicts bks, drs and the file f; io is the outcome of the  *)
(* file write should the method reach save_data.  The result holds the     *)
(* new dicts and file, the value returned (ret, with "True" and "False"    *)
(* for the booleans), whether the method raised, and what save_data        *)
(* returned ("none" when it was not called).                               *)
(***************************************************************************)
Outcome(bks, drs, f, ret, raised, sv) ==
    [books |-> bks, diaries |-> drs, file |-> f,
     ret |-> ret, raised |-> raised, saved |-> sv]

\* the same, with the failure of save_data passed on as the return value
Saving_Propagating(bks, drs, f, io, ret) ==
    LET s == save_data(bks, drs, f, io)
    IN  Outcome(bks, drs, s.file, IF s.ret THEN ret ELSE "False", FALSE,
                IF s.ret THEN "true" ELSE "false")

\* the dicts after the mutation, then save_data, then the return value
Saving(bks, drs, f, io, ret) ==
    LET s == save_data(bks, drs, f, io)
    IN  Outcome(bks, drs, s.file, ret, FALSE, IF s.ret THEN "true" ELSE "false")

\* add_book that stores the book and creates no diary list
add_book_NoDiaryList(bks, drs, f, book, io) ==
    Saving(DictSet(bks, book.id, book), drs, f, io, book.id)

\* add_book that always starts the book with an empty diary list
add_book_ResetDiaries(bks, drs, f, book, io) ==
    Saving(DictSet(bks, book.id, book), DictSet(drs, book.id, <<>>), f, io, book.id)

\* add_book that keeps a book already stored under the id
add_book_KeepExisting(bks, drs, f, book, io) ==
    LET bks2 == IF DictHas(bks, book.id) THEN bks ELSE DictSet(bks, book.id, book)
        drs2 == IF ~DictHas(drs, book.id) THEN DictSet(drs, book.id, <<>>) ELSE drs
    IN  Saving(bks2, drs2, f, io, book.id)

add_book(bks, drs, f, book, io) ==
    LET bks2 == DictSet(bks, book.id, book)
        drs2 == IF ~DictHas(drs, book.id) THEN DictSet(drs, book.id, <<>>) ELSE drs
    IN  Saving(bks2, drs2, f, io, book.id)

\* update_book that stores the book whether or not its id is known
update_book_Upsert(bks, drs, f, book, io) ==
    Saving(DictSet(bks, book.id, book), drs, f, io, "True")

update_book(bks, drs, f, book, io) ==
    IF ~DictHas(bks, book.id)
    THEN Outcome(bks, drs, f, "False", FALSE, "none")
    ELSE Saving(DictSet(bks, book.id, book), drs, f, io, "True")

\* delete_book that leaves the diaries of the book behind
delete_book_NoCascade(bks, drs, f, book_id, io) ==
    IF ~DictHas(bks, book_id)
    THEN Outcome(bks, drs, f, "False", FALSE, "none")
    ELSE Saving(DictDel(bks, book_id), drs, f, io, "True")

delete_book(bks, drs, f, book_id, io) ==
    IF ~DictHas(bks, book_id)
    THEN Outcome(bks, drs, f, "False", FALSE, "none")
    ELSE LET bks2 == DictDel(bks, book_id)
             drs2 == IF DictHas(drs, book_id) THEN DictDel(drs, book_id) ELSE drs
         IN  Saving(bks2, drs2, f, io, "True")

\* None is modelled as the empty sequence of books
get_book(bks, book_id) ==
    IF DictHas(bks, book_id) THEN <<DictGet(bks, book_id)>> ELSE <<>>

get_all_books(bks) == DictValues(bks)

\* add_diary that appends the diary and does not call save_data
add_diary_NoSave(bks, drs, f, diary, io) ==
    IF ~DictHas(bks, diary.book_id)
    THEN Outcome(bks, drs, f, "ValueError", TRUE, "none")
    ELSE LET drs1 == IF ~DictHas(drs, diary.book_id)
                     THEN DictSet(drs, diary.book_id, <<>>) ELSE drs
         IN  Outcome(bks, DictSet(drs1, diary.book_id,
                                  Append(DictGet(drs1, diary.book_id), diary)),
                     f, diary.id, FALSE, "none")

\* add_diary without the check of the book
add_diary_Unchecked(bks, drs, f, diary, io) ==
    LET drs1 == IF ~DictHas(drs, diary.book_id)
                THEN DictSet(drs, diary.book_id, <<>>) ELSE drs
        drs2 == DictSet(drs1, diary.book_id,
                        Append(DictGet(drs1, diary.book_id), diary))
    IN  Saving(bks, drs2, f, io, diary.id)

add_diary(bks, drs, f, diary, io) ==
    IF ~DictHas(bks, diary.book_id)
    THEN Outcome(bks, drs, f, "ValueError", TRUE, "none")
    ELSE LET drs1 == IF ~DictHas(drs, diary.book_id)
                     THEN DictSet(drs, diary.book_id, <<>>) ELSE drs
             drs2 == DictSet(drs1, diary.book_id,
                             Append(DictGet(drs1, diary.book_id), diary))
         IN  Saving(bks, drs2, f, io, diary.id)

\* index of the first entry of lst with the given id, 0 when there is none
FirstIndex(lst, id) ==
    IF \E i \in DOMAIN lst : lst[i].id = id
    THEN CHOOSE i \in DOMAIN lst :
            /\ lst[i].id = id
            /\ \A j \in 1..(i - 1) : lst[j].id # id
    ELSE 0

\* update_diary that appends the diary when its id is not in the list
update_diary_Upsert(bks, drs, f, diary, io) ==
    IF ~DictHas(drs, diary.book_id)
    THEN Outcome(bks, drs, f, "False", FALSE, "none")
    ELSE LET lst == DictGet(drs, diary.book_id)
             i   == FirstIndex(lst, diary.id)
         IN  IF i = 0
             THEN Saving(bks, DictSet(drs, diary.book_id, Append(lst, diary)),
                         f, io, "True")
             ELSE Saving(bks, DictSet(drs, diary.book_id, [lst EXCEPT ![i] = diary]),
                         f, io, "True")

\* update_diary that moves the updated entry to the end of the list
update_diary_MoveToEnd(bks, drs, f, diary, io) ==
    IF ~DictHas(drs, diary.book_id)
    THEN Outcome(bks, drs, f, "False", FALSE, "none")
    ELSE LET lst == DictGet(drs, diary.book_id)
             i   == FirstIndex(lst, diary.id)
         IN  IF i = 0
             THEN Outcome(bks, drs, f, "False", FALSE, "none")
             ELSE Saving(bks, DictSet(drs, diary.book_id, Append(ListDel(lst, i), diary)),
                         f, io, "True")

update_diary(bks, drs, f, diary, io) ==
    IF ~DictHas(drs, diary.book_id)
    THEN Outcome(bks, drs, f, "False", FALSE, "none")
    ELSE LET lst == DictGet(drs, diary.book_id)
             i   == FirstIndex(lst, diary.id)
         IN  IF i = 0
             THEN Outcome(bks, drs, f, "False", FALSE, "none")
             ELSE Saving(bks, DictSet(drs, diary.book_id, [lst EXCEPT ![i] = diary]),
                         f, io, "True")

\* position in the dict of the first list holding the id, 0 when there is none
FirstList(drs, diary_id) ==
    IF \E k \in DOMAIN drs : FirstIndex(drs[k][2], diary_id) # 0
    THEN CHOOSE k \in DOMAIN drs :
            /\ FirstIndex(drs[k][2], diary_id) # 0
            /\ \A m \in 1..(k - 1) : FirstIndex(drs[m][2], diary_id) = 0
    ELSE 0

\* delete_diary that removes every entry with the id
delete_diary_EveryMatch(bks, drs, f, diary_id, io) ==
    IF FirstList(drs, diary_id) = 0
    THEN Outcome(bks, drs, f, "False", FALSE, "none")
    ELSE Saving(bks,
                [k \in DOMAIN drs |->
                    <<drs[k][1], SelectSeq(drs[k][2], LAMBDA d : d.id # diary_id)>>],
                f, io, "True")

delete_diary(bks, drs, f, diary_id, io) ==
    LET k == FirstList(drs, diary_id)
    IN  IF k = 0
        THEN Outcome(bks, drs, f, "False", FALSE, "none")
        ELSE LET i == FirstIndex(drs[k][2], diary_id)
             IN  Saving(bks, [drs EXCEPT ![k] = <<drs[k][1], ListDel(drs[k][2], i)>>],
                        f, io, "True")

\* None is modelled as the empty sequence of diaries
get_diary(drs, diary_id) ==
    LET k == FirstList(drs, diary_id)
    IN  IF k = 0 THEN <<>>
        ELSE <<drs[k][2][FirstIndex(drs[k][2], diary_id)]>>

\* datetime comparison a >= b
DateGeq(a, b) == a.day > b.day \/ (a.day = b.day /\ a.time >= b.time)

\* one step of the stable descending sort: x goes after every entry
\* whose date is not earlier than its own
RECURSIVE SortedInsert(_, _)
SortedInsert(lst, x) ==
    IF lst = <<>> THEN <<x>>
    ELSE IF DateGeq(Head(lst).date, x.date)
         THEN <<Head(lst)>> \o SortedInsert(Tail(lst), x)
         ELSE <<x>> \o lst

\* sorted(lst, key=lambda d: d.date, reverse=True)
RECURSIVE SortedByDateDesc(_)
SortedByDateDesc(lst) ==
    IF lst = <<>> THEN <<>>
    ELSE SortedInsert(SortedByDateDesc(SubSeq(lst, 1, Len(lst) - 1)), lst[Len(lst)])

get_diaries_for_book(drs, book_id) ==
    IF ~DictHas(drs, book_id) THEN <<>>
    ELSE SortedByDateDesc(DictGet(drs, book_id))

\* the test of search_books on one book; query is already lower-cased
BookMatches(query, book) ==
    \/ Contains(query, Lower(Chars(book.title)))
    \/ Contains(query, Lower(Chars(book.author)))
    \/ Contains(query, Lower(Chars(book.genre)))
    \/ Contains(query, Lower(Chars(book.memo)))

\* the loop of search_books over self.books.values()
RECURSIVE SearchBooksLoop(_, _)
SearchBooksLoop(query, values) ==
    IF values = <<>> THEN <<>>
    ELSE (IF BookMatches(query, Head(values)) THEN <<Head(values)>> ELSE <<>>)
         \o SearchBooksLoop(query, Tail(values))

\* search_books that does not look at the memo
search_books_NoMemo(bks, query) ==
    SelectSeq(DictValues(bks),
              LAMBDA book : BookMatches(Lower(Chars(query)), [book EXCEPT !.memo = ""]))

search_books(bks, query) == SearchBooksLoop(Lower(Chars(query)), DictValues(bks))

\* the loop of search_diaries over self.diaries[book_id]
RECURSIVE SearchDiariesLoop(_, _)
SearchDiariesLoop(query, lst) ==
    IF lst = <<>> THEN <<>>
    ELSE (IF Contains(query, Lower(Chars(Head(lst).content))) THEN <<Head(lst)>> ELSE <<>>)
         \o SearchDiariesLoop(query, Tail(lst))

\* search_diaries that goes through the list newest first
search_diaries_DateOrder(drs, book_id, query) ==
    SearchDiariesLoop(Lower(Chars(query)), get_diaries_for_book(drs, book_id))

search_diaries(drs, book_id, query) ==
    IF ~DictHas(drs, book_id) THEN <<>>
    ELSE SearchDiariesLoop(Lower(Chars(query)), DictGet(drs, book_id))

(***************************************************************************)
(* Inputs of the operations                                                *)
(***************************************************************************)
\* the books callers pass: a new book, the same book edited, and a second
\* book built without an id, which uuid4() then supplies
BookInputs ==
    {Book("Dune", "Herbert", 1965, "", "", "b1", "b1"),
     Book("Dune Messiah", "Herbert", 1969, "", "", "b1", "b1"),
     Book("Emma", "Austen", 1815, "", "", "", "b2")}

\* the diaries callers pass to add_diary: no id (uuid4() supplies it), a date
\* or none
NewDiaries ==
    {Diary(book_id, "Great start", date, "", Now, uuid) :
        book_id \in BookIds, date \in ExplicitDates \cup {NoDate}, uuid \in DiaryIds}

\* the diaries callers pass to update_diary: the id and a date
EditedDiaries ==
    {Diary(book_id, "Great start", date, diary_id, Now, diary_id) :
        book_id \in BookIds, date \in ExplicitDates, diary_id \in DiaryIds}

\* the files the program may find at start-up
\* a well-formed file; the optional keys genre and memo are left out
GoodFile ==
    [exists |-> TRUE, parses |-> TRUE,
     data |-> [books   |-> << <<"b1", [id |-> "b1", title |-> "Dune",
                                      author |-> "Herbert",
                                      published_year |-> 1965]>> >>,
               diaries |-> << <<"b1", << [id |-> "d1", book_id |-> "b1",
                                         date |-> "2024-05-01",
                                         content |-> "Great start"] >> >> >>]]

\* a book record without its title
BadBookFile ==
    [GoodFile EXCEPT !.data.books =
        << <<"b1", [id |-> "b1", author |-> "Herbert", published_year |-> 1965]>> >>]

\* a diary whose date is not in the YYYY-MM-DD form
BadDateFile ==
    [GoodFile EXCEPT !.data.diaries =
        << <<"b1", << [id |-> "d1", book_id |-> "b1", date |-> "2024/05/01",
                      content |-> "Great start"] >> >> >>]

\* a diary record without its content
BadDiaryFile ==
    [GoodFile EXCEPT !.data.diaries =
        << <<"b1", << [id |-> "d1", book_id |-> "b1",
                      date |-> "2024-05-01"] >> >> >>]

InitialFiles ==
    {NoFile, TruncatedFile, GoodFile, BadBookFile, BadDateFile, BadDiaryFile}

\* the books of the search scenarios: those above and two with a genre or
\* a memo
LibraryBooks ==
    BookInputs \cup
        {Book("Dune", "Herbert", 1965, "SF", "", "b1", "b1"),
         Book("Emma", "Austen", 1815, "", "a Gem", "", "b2")}

\* the diaries of the search scenarios
LibraryDiaries ==
    {Diary(book_id, content, date, "", Now, uuid) :
        book_id \in BookIds, content \in {"Great start", "The END"},
        date \in ExplicitDates, uuid \in DiaryIds}

\* the queries passed to search_books and to search_diaries
BookQueries == {"", "dune", "AUSTEN", "sf", "Gem", "e", "zz"}
DiaryQueries == {"", "T", "great", "END", "zz"}

\* number of diaries held, over all books
RECURSIVE TotalDiaries(_)
TotalDiaries(drs) ==
    IF drs = <<>> THEN 0 ELSE Len(Head(drs)[2]) + TotalDiaries(Tail(drs))

\* the file write may fail while the budget of failures lasts
IoChoices == IF fails < MaxFails THEN IoOutcomes ELSE {"ok"}

(***************************************************************************)
(* State machine                                                           *)
(***************************************************************************)
Init ==
    /\ file \in InitialFiles
    /\ books = BookManager(file).books
    /\ diaries = BookManager(file).diaries
    /\ clock = 0
    /\ fails = 0
    /\ last = [op |-> "init", out |-> IF BookManager(file).ret THEN "true" ELSE "false",
               saved |-> "none"]

\* the tag of a method's outcome kept in last
OutTag(r) ==
    IF r.raised THEN "raised"
    ELSE IF r.ret = "False" THEN "false"
    ELSE "ok"

\* a mutating method ran with outcome r
Apply(op, r) ==
    /\ books' = r.books
    /\ diaries' = r.diaries
    /\ file' = r.file
    /\ fails' = IF r.saved = "false" THEN fails + 1 ELSE fails
    /\ last' = [op |-> op, out |-> OutTag(r), saved |-> r.saved]

\* a read-only method ran
Read(op, out) ==
    /\ last' = [op |-> op, out |-> out, saved |-> "none"]
    /\ UNCHANGED <<books, diaries, file, clock, fails>>

AddBook ==
    \E book \in BookInputs, io \in IoChoices :
        /\ Apply("add_book", add_book(books, diaries, file, book, io))
        /\ UNCHANGED clock

UpdateBook ==
    \E book \in BookInputs, io \in IoChoices :
        /\ Apply("update_book", update_book(books, diaries, file, book, io))
        /\ UNCHANGED clock

DeleteBook ==
    \E book_id \in BookIds, io \in IoChoices :
        /\ Apply("delete_book", delete_book(books, diaries, file, book_id, io))
        /\ UNCHANGED clock

\* the caller builds the Diary, with or without a date, then calls add_diary
AddDiary ==
    \E diary \in NewDiaries, io \in IoChoices :
        /\ TotalDiaries(diaries) < MaxDiaries
        /\ diary.date = Now => clock < MaxClock
        /\ Apply("add_diary", add_diary(books, diaries, file, diary, io))
        /\ clock' = IF diary.date = Now THEN clock + 1 ELSE clock

UpdateDiary ==
    \E diary \in EditedDiaries, io \in IoChoices :
        /\ Apply("update_diary", update_diary(books, diaries, file, diary, io))
        /\ UNCHANGED clock

DeleteDiary ==
    \E diary_id \in DiaryIds, io \in IoChoices :
        /\ Apply("delete_diary", delete_diary(books, diaries, file, diary_id, io))
        /\ UNCHANGED clock

GetBook ==
    \E book_id \in BookIds :
        Read("get_book", IF get_book(books, book_id) = <<>> THEN "none" ELSE "ok")

GetAllBooks == Read("get_all_books", "ok")

GetDiary ==
    \E diary_id \in DiaryIds :
        Read("get_diary", IF get_diary(diaries, diary_id) = <<>> THEN "none" ELSE "ok")

GetDiariesForBook ==
    \E book_id \in BookIds :
        Read("get_diaries_for_book",
             IF get_diaries_for_book(diaries, book_id) = <<>> THEN "empty" ELSE "ok")

\* load_data called on the running manager
LoadData ==
    LET r == load_data(books, diaries, file)
    IN  /\ books' = r.books
        /\ diaries' = r.diaries
        /\ last' = [op |-> "load_data", out |-> IF r.ret THEN "true" ELSE "false",
                    saved |-> "none"]
        /\ UNCHANGED <<file, clock, fails>>

\* the program is started again on the same file
Restart ==
    LET r == BookManager(file)
    IN  /\ books' = r.books
        /\ diaries' = r.diaries
        /\ last' = [op |-> "init", out |-> IF r.ret THEN "true" ELSE "false",
                    saved |-> "none"]
        /\ UNCHANGED <<file, clock, fails>>

Next ==
    \/ AddBook
    \/ UpdateBook
    \/ DeleteBook
    \/ AddDiary
    \/ UpdateDiary
    \/ DeleteDiary
    \/ GetBook
    \/ GetAllBooks
    \/ GetDiary
    \/ GetDiariesForBook
    \/ LoadData
    \/ Restart

Spec == Init /\ [][Next]_vars

(***************************************************************************)
(* The program started on an empty store: no data file exists              *)
(***************************************************************************)
InitEmpty ==
    /\ file = NoFile
    /\ Init

SpecEmpty == InitEmpty /\ [][Next]_vars

(***************************************************************************)
(* Search scenarios: a library is built on a new file with books and       *)
(* diaries of varied text, and searched                                    *)
(***************************************************************************)
InitSearch ==
    /\ file = NoFile
    /\ books = BookManager(file).books
    /\ diaries = BookManager(file).diaries
    /\ clock = 0
    /\ fails = 0
    /\ last = [op |-> "init", out |-> "false", saved |-> "none"]

AddLibraryBook ==
    \E book \in LibraryBooks :
        /\ Apply("add_book", add_book(books, diaries, file, book, "ok"))
        /\ UNCHANGED clock

AddLibraryDiary ==
    \E diary \in LibraryDiaries :
        /\ TotalDiaries(diaries) < MaxDiaries
        /\ Apply("add_diary", add_diary(books, diaries, file, diary, "ok"))
        /\ UNCHANGED clock

SearchBooks ==
    \E query \in BookQueries :
        Read("search_books", IF search_books(books, query) = <<>> THEN "empty" ELSE "ok")

SearchDiaries ==
    \E book_id \in BookIds, query \in DiaryQueries :
        Read("search_diaries",
             IF search_diaries(diaries, book_id, query) = <<>> THEN "empty" ELSE "ok")

NextSearch ==
    \/ AddLibraryBook
    \/ AddLibraryDiary
    \/ SearchBooks
    \/ SearchDiaries
    \/ GetDiariesForBook

SpecSearch == InitSearch /\ [][NextSearch]_vars

(***************************************************************************)
(* Properties.  Each states, for the current state and every input, what   *)
(* the method does when called now.                                        *)
(***************************************************************************)
\* every diary a caller may pass
DiaryInputs == NewDiaries \cup EditedDiaries

\* the file content a successful save_data leaves for the given dicts
SavedFile(bks, drs) == [exists |-> TRUE, parses |-> TRUE, data |-> DumpData(bks, drs)]

\* the list stored for a book, empty when there is none
StoredList(drs, book_id) == IF DictHas(drs, book_id) THEN DictGet(drs, book_id) ELSE <<>>

\* the outcomes of every mutating method over every input, for one io
MutationOutcomes(io) ==
    {add_book(books, diaries, file, b, io) : b \in BookInputs}
    \cup {update_book(books, diaries, file, b, io) : b \in BookInputs}
    \cup {delete_book(books, diaries, file, id, io) : id \in BookIds}
    \cup {add_diary(books, diaries, file, d, io) : d \in DiaryInputs}
    \cup {update_diary(books, diaries, file, d, io) : d \in DiaryInputs}
    \cup {delete_diary(books, diaries, file, id, io) : id \in DiaryIds}

\* C1: add_diary with a book_id that is no key of books raises, returns
\* neither an id nor a boolean, leaves books, diaries and the file as they
\* were and does not call save_data.
C1_AddDiaryUnknownBookRaises ==
    \A d \in DiaryInputs, io \in IoOutcomes :
        ~DictHas(books, d.book_id) =>
            LET r == add_diary(books, diaries, file, d, io)
            IN  /\ r.raised
                /\ r.ret \notin DiaryIds \cup {"True", "False"}
                /\ r.books = books
                /\ r.diaries = diaries
                /\ r.file = file
                /\ r.saved = "none"

\* add_diary has just raised while other books and diaries are stored
C1_Witness ==
    /\ last.op = "add_diary"
    /\ last.out = "raised"
    /\ books # <<>>
    /\ TotalDiaries(diaries) > 0
    /\ file.exists

\* what C2 states of delete_book apart from persistence
DeleteBookEffect(id, r) ==
    /\ r.ret = "True"
    /\ ~r.raised
    /\ get_book(r.books, id) = <<>>
    /\ \A i \in DOMAIN get_all_books(r.books) : get_all_books(r.books)[i].id # id
    /\ get_diaries_for_book(r.diaries, id) = <<>>
    /\ \A other \in BookIds \ {id} :
        /\ get_book(r.books, other) = get_book(books, other)
        /\ DictHas(r.diaries, other) = DictHas(diaries, other)
        /\ StoredList(r.diaries, other) = StoredList(diaries, other)
    /\ r.saved # "none"

AddBookEffect(book, r) ==
    /\ r.ret = book.id
    /\ ~r.raised
    /\ get_book(r.books, book.id) = <<book>>

\* C3 as claimed: add_book returns book.id, get_book(book.id) then returns a
\* record equal to book, and get_all_books is exactly one longer.
C3_Original ==
    \A book \in BookInputs, io \in IoOutcomes :
        LET r == add_book(books, diaries, file, book, io)
        IN  /\ AddBookEffect(book, r)
            /\ Len(get_all_books(r.books)) = Len(get_all_books(books)) + 1

\* C3 amended: add_book returns book.id and get_book(book.id) then returns a
\* record equal to book; get_all_books is exactly one longer when book.id
\* was not stored, and as long as before when it was (the stored book is
\* overwritten).
C3_AddBookThenGet ==
    \A book \in BookInputs, io \in IoOutcomes :
        LET r == add_book(books, diaries, file, book, io)
        IN  /\ AddBookEffect(book, r)
            /\ Len(get_all_books(r.books)) =
                 IF DictHas(books, book.id)
                 THEN Len(get_all_books(books))
                 ELSE Len(get_all_books(books)) + 1

\* add_book has just run with two books stored: a state both a new id and
\* a colliding id lead to
C3_Witness ==
    /\ last.op = "add_book"
    /\ last.out = "ok"
    /\ Len(books) = 2

\* the orderings of n positions
Orderings(n) ==
    {p \in [1..n -> 1..n] : \A i, j \in 1..n : p[i] = p[j] => i = j}

\* res holds the entries of lst, later calendar days first, entries of one
\* calendar day in the order they have in lst
OrderedByDayDesc(res, lst) ==
    \E p \in Orderings(Len(lst)) :
        /\ res = [i \in 1..Len(lst) |-> lst[p[i]]]
        /\ \A i, j \in 1..Len(lst) :
            i < j => \/ lst[p[i]].date.day > lst[p[j]].date.day
                     \/ /\ lst[p[i]].date.day = lst[p[j]].date.day
                        /\ p[i] < p[j]

\* C4: get_diaries_for_book returns the empty sequence for an unknown book
\* and otherwise the stored diaries of the book by calendar date descending,
\* entries of one calendar date in insertion order, diaries built without a
\* date included.
C4_Original ==
    \A book_id \in BookIds :
        IF ~DictHas(diaries, book_id)
        THEN get_diaries_for_book(diaries, book_id) = <<>>
        ELSE OrderedByDayDesc(get_diaries_for_book(diaries, book_id),
                              DictGet(diaries, book_id))

\* C5: when the last save succeeded, a fresh BookManager on the same file
\* lists the same books in the same order and, for every book, the same
\* diaries in the same order.
C5_Original ==
    last.saved = "true" =>
        LET fresh == BookManager(file)
        IN  /\ get_all_books(fresh.books) = get_all_books(books)
            /\ \A book_id \in BookIds :
                get_diaries_for_book(fresh.diaries, book_id)
                    = get_diaries_for_book(diaries, book_id)

\* C6: a load_data that fails on an existing file returns false and leaves
\* books and diaries as they were before the call; a manager whose
\* construction met such a file is still empty.
C6_Original ==
    /\ LET r == load_data(books, diaries, file)
       IN  (file.exists /\ ~r.ret) => (r.books = books /\ r.diaries = diaries)
    /\ (last.op = "init" /\ last.out = "false") => (books = <<>> /\ diaries = <<>>)

\* C7: without a file load_data returns false, changes nothing and creates
\* no file; the file appears only with a mutating method whose save succeeds.
C7_Original ==
    ~file.exists =>
        /\ LET r == load_data(books, diaries, file)
           IN  ~r.ret /\ r.books = books /\ r.diaries = diaries
        /\ (last.op = "init") => (books = <<>> /\ diaries = <<>>)
        /\ \A io \in IoOutcomes : \A r \in MutationOutcomes(io) :
            r.file.exists => r.saved = "true"

\* the method returned False and touched nothing: the dicts and the file
\* are as before and save_data was not called
NotFound(r) ==
    /\ r.ret = "False"
    /\ ~r.raised
    /\ r.books = books
    /\ r.diaries = diaries
    /\ r.file = file
    /\ r.saved = "none"

\* C8: update_diary returns false when diaries has no list for
\* diary.book_id or the list has no entry with diary.id, also when that id
\* is stored under another book; the dicts and the file are then unchanged.
C8_UpdateDiaryNotFound ==
    \A d \in DiaryInputs, io \in IoOutcomes :
        (\/ ~DictHas(diaries, d.book_id)
         \/ \A i \in DOMAIN StoredList(diaries, d.book_id) :
                StoredList(diaries, d.book_id)[i].id # d.id)
        => NotFound(update_diary(books, diaries, file, d, io))

\* update_diary has just returned false although every diary id is stored:
\* both ids are in the list of one book, so the call named the other book
C8_Witness ==
    /\ last.op = "update_diary"
    /\ last.out = "false"
    /\ Len(diaries) = 2
    /\ \E k \in DOMAIN diaries :
        /\ Len(diaries[k][2]) = 2
        /\ {diaries[k][2][i].id : i \in 1..2} = DiaryIds

\* C9: update_book and delete_book on an id that is no key of books, and
\* delete_diary on an id in no diary list, return false without raising,
\* leave books and diaries unchanged and do not write the file.
C9_NotFoundReturnsFalse ==
    \A io \in IoOutcomes :
        /\ \A b \in BookInputs :
            ~DictHas(books, b.id) => NotFound(update_book(books, diaries, file, b, io))
        /\ \A id \in BookIds :
            ~DictHas(books, id) => NotFound(delete_book(books, diaries, file, id, io))
        /\ \A id \in DiaryIds :
            (\A k \in DOMAIN diaries : \A i \in DOMAIN diaries[k][2] :
                diaries[k][2][i].id # id)
            => NotFound(delete_diary(books, diaries, file, id, io))

\* delete_diary has just returned false while a diary with another id is
\* stored and a file exists
C9_Witness ==
    /\ last.op = "delete_diary"
    /\ last.out = "false"
    /\ TotalDiaries(diaries) > 0
    /\ file.exists /\ file.parses

\* the io outcomes in which the file write fails
FailingIo == IoOutcomes \ {"ok"}

\* the method reached save_data, whose write failed: it still returned its
\* success value and the dicts are those the mutation produces (ok is the
\* same call with a write that succeeds)
KeptDespiteFailure(r, ok) ==
    /\ r.saved = "false"
    /\ ~r.raised
    /\ r.ret = ok.ret
    /\ r.ret # "False"
    /\ r.books = ok.books
    /\ r.diaries = ok.diaries

\* C10: when the file write fails save_data returns false; the mutating
\* method that called it still returns its id or true, and the mutation
\* stays in memory.
C10_SaveFailureIsSilent ==
    \A io \in FailingIo :
        /\ ~save_data(books, diaries, file, io).ret
        /\ \A b \in BookInputs :
            /\ LET r == add_book(books, diaries, file, b, io)
               IN  /\ KeptDespiteFailure(r, add_book(books, diaries, file, b, "ok"))
                   /\ r.ret = b.id
                   /\ get_book(r.books, b.id) = <<b>>
            /\ DictHas(books, b.id) =>
                LET r == update_book(books, diaries, file, b, io)
                IN  /\ KeptDespiteFailure(r, update_book(books, diaries, file, b, "ok"))
                    /\ r.ret = "True"
                    /\ get_book(r.books, b.id) = <<b>>
        /\ \A id \in BookIds :
            DictHas(books, id) =>
                LET r == delete_book(books, diaries, file, id, io)
                IN  /\ KeptDespiteFailure(r, delete_book(books, diaries, file, id, "ok"))
                    /\ r.ret = "True"
                    /\ get_book(r.books, id) = <<>>
        /\ \A d \in DiaryInputs :
            /\ DictHas(books, d.book_id) =>
                LET r == add_diary(books, diaries, file, d, io)
                IN  /\ KeptDespiteFailure(r, add_diary(books, diaries, file, d, "ok"))
                    /\ r.ret = d.id
                    /\ StoredList(r.diaries, d.book_id)
                         = Append(StoredList(diaries, d.book_id), d)
            /\ FirstIndex(StoredList(diaries, d.book_id), d.id) # 0 =>
                LET r == update_diary(books, diaries, file, d, io)
                IN  /\ KeptDespiteFailure(r, update_diary(books, diaries, file, d, "ok"))
                    /\ r.ret = "True"
                    /\ StoredList(r.diaries, d.book_id)
                         [FirstIndex(StoredList(diaries, d.book_id), d.id)] = d
        /\ \A id \in DiaryIds :
            FirstList(diaries, id) # 0 =>
                LET r == delete_diary(books, diaries, file, id, io)
                IN  /\ KeptDespiteFailure(r, delete_diary(books, diaries, file, id, "ok"))
                    /\ r.ret = "True"
                    /\ TotalDiaries(r.diaries) = TotalDiaries(diaries) - 1

\* a mutating method has just returned its success value although the file
\* write failed: the file no longer holds what memory holds
C10_Witness ==
    /\ last.saved = "false"
    /\ last.out = "ok"
    /\ fails > 0
    /\ file # SavedFile(books, diaries)

\* C11: whatever saves failed before, a mutating method whose save succeeds
\* leaves in the file the serialization of the whole of memory as it is
\* after that method, mutations whose own save failed included.
C11_NextSaveHeals ==
    \A r \in MutationOutcomes("ok") :
        r.saved = "true" => r.file = SavedFile(r.books, r.diaries)

\* a save has failed earlier and the method called last saved: the file
\* holds all of memory again
C11_Witness ==
    /\ fails > 0
    /\ last.saved = "true"
    /\ last.out = "ok"
    /\ books # <<>>
    /\ file = SavedFile(books, diaries)

\* the files a process killed inside save_data can leave: the old file when
\* it stops before open(), a file cut short when it stops during the write
CrashedSave(f) == {f, TruncatedFile}

\* the file can be loaded: it parses and every record decodes
Loadable(f) == f.exists /\ f.parses /\ LoadBooksOk(f) /\ LoadDiariesOk(f)

\* C12: right after a successful save, a process that stops inside the next
\* mutating method (before or during the file write) leaves a file that is
\* not corrupted, and a new BookManager on it holds the state of that last
\* successful save.
C12_Original ==
    last.saved = "true" =>
        \A f \in CrashedSave(file) :
            /\ Loadable(f)
            /\ BookManager(f).books = BookManager(file).books
            /\ BookManager(f).diaries = BookManager(file).diaries

\* C13: from_dict(to_dict(x)) equals x field by field for every Book and
\* every Diary that can be constructed, a Diary with a defaulted date
\* included.
C13_Original ==
    /\ \A b \in BookInputs : BookFromDict(BookToDict(b)) = b
    /\ \A d \in DiaryInputs : DiaryFromDict(DiaryToDict(d)) = d

\* the lower-cased query occurs in the lower-cased text
OccursIn(query, text) == Contains(Lower(Chars(query)), Lower(Chars(text)))

\* the query occurs in one of the four searched fields of the book
FoundInBook(query, book) ==
    \/ OccursIn(query, book.title)
    \/ OccursIn(query, book.author)
    \/ OccursIn(query, book.genre)
    \/ OccursIn(query, book.memo)

\* C14: search_books(query) is get_all_books() restricted, in the same
\* order, to the books in which the lower-cased query is a substring of the
\* lower-cased title, author, genre or memo; the empty query returns every
\* book and a query found in no book returns the empty sequence.
C14_SearchBooksFilters ==
    \A query \in BookQueries :
        LET all == get_all_books(books)
            res == search_books(books, query)
        IN  /\ res = SelectSeq(all, LAMBDA book : FoundInBook(query, book))
            /\ query = "" => res = all
            /\ (\A i \in DOMAIN all : ~FoundInBook(query, all[i])) => res = <<>>

\* a search of two books was made, and for some query found in a memo only
\* the result is one of the two
C14_Witness ==
    /\ last.op = "search_books"
    /\ Len(books) = 2
    /\ Len(search_books(books, "Gem")) = 1
    /\ Len(search_books(books, "e")) = 2
    /\ search_books(books, "zz") = <<>>

\* C19: search_diaries returns the empty sequence for an unknown book_id;
\* otherwise the diaries of the book whose lower-cased content contains the
\* lower-cased query, in stored order; and get_diaries_for_book leaves the
\* stored order as it is.
C19_SearchDiariesFilters ==
    /\ [](\A book_id \in BookIds, query \in DiaryQueries :
            LET res == search_diaries(diaries, book_id, query)
            IN  IF ~DictHas(diaries, book_id) THEN res = <<>>
                ELSE res = SelectSeq(DictGet(diaries, book_id),
                                     LAMBDA d : OccursIn(query, d.content)))
    /\ [][last'.op = "get_diaries_for_book" => diaries' = diaries]_vars

\* after get_diaries_for_book on a list it returns in another order than the
\* stored one, a search returning both entries gives them in stored order
C19_Witness ==
    /\ last.op = "get_diaries_for_book"
    /\ \E book_id \in BookIds :
        /\ Len(StoredList(diaries, book_id)) = 2
        /\ get_diaries_for_book(diaries, book_id) # StoredList(diaries, book_id)
        /\ search_diaries(diaries, book_id, "T") = StoredList(diaries, book_id)
        /\ Len(search_diaries(diaries, book_id, "END")) = 1

\* the keys of a dict in iteration order
KeyOrder(d) == [i \in DOMAIN d |-> d[i][1]]

\* C15: every key of books maps to a Book whose id is that key, so no two
\* books of get_all_books() have the same id, and update_book leaves the keys
\* and the id stored under each key as they are.
C15_BookIdentity ==
    /\ \A i \in DOMAIN books : books[i][2].id = books[i][1]
    /\ \A i, j \in DOMAIN books : books[i][1] = books[j][1] => i = j
    /\ \A i, j \in DOMAIN books :
            get_all_books(books)[i].id = get_all_books(books)[j].id => i = j
    /\ \A book \in BookInputs, io \in IoOutcomes :
            LET r == update_book(books, diaries, file, book, io)
            IN  /\ KeyOrder(r.books) = KeyOrder(books)
                /\ \A i \in DOMAIN r.books : r.books[i][2].id = books[i][2].id

\* update_book has replaced one of two stored books
C15_Witness ==
    /\ last.op = "update_book"
    /\ last.out = "ok"
    /\ Len(books) = 2
    /\ \E i \in DOMAIN books : books[i][2].title = "Dune Messiah"

\* C16 as claimed: after every add_book(book), a colliding one included, the
\* diary list stored for book.id is empty.
C16_Original ==
    \A book \in BookInputs, io \in IoOutcomes :
        LET r == add_book(books, diaries, file, book, io)
        IN  /\ DictHas(r.diaries, book.id)
            /\ get_diaries_for_book(r.diaries, book.id) = <<>>

\* C16 amended: after every add_book(book) a diary list is stored for
\* book.id; it is empty when none was stored before, and it is the list
\* stored before, entries included, when book.id collides.
C16_AddBookKeepsDiaries ==
    \A book \in BookInputs, io \in IoOutcomes :
        LET r == add_book(books, diaries, file, book, io)
        IN  /\ DictHas(r.diaries, book.id)
            /\ StoredList(r.diaries, book.id) = StoredList(diaries, book.id)
            /\ ~DictHas(diaries, book.id) =>
                    get_diaries_for_book(r.diaries, book.id) = <<>>
            /\ \A other \in BookIds \ {book.id} :
                    /\ DictHas(r.diaries, other) = DictHas(diaries, other)
                    /\ StoredList(r.diaries, other) = StoredList(diaries, other)

\* add_book has just stored the only book, whose id has a diary: the id
\* collided and its entry was kept
C16_Witness ==
    /\ last.op = "add_book"
    /\ last.out = "ok"
    /\ KeyOrder(books) = <<"b1">>
    /\ Len(get_diaries_for_book(diaries, "b1")) >= 1

\* update_diary(diary) finds an entry to replace
UpdateDiaryFinds(diary) ==
    /\ DictHas(diaries, diary.book_id)
    /\ \E i \in DOMAIN DictGet(diaries, diary.book_id) :
            DictGet(diaries, diary.book_id)[i].id = diary.id

\* what C17 states of a successful update_diary apart from persistence
UpdateDiaryEffect(diary, r) ==
    LET lst == DictGet(diaries, diary.book_id)
        new == StoredList(r.diaries, diary.book_id)
        i   == CHOOSE n \in DOMAIN lst :
                    /\ lst[n].id = diary.id
                    /\ \A m \in 1..(n - 1) : lst[m].id # diary.id
    IN  /\ r.ret = "True"
        /\ ~r.raised
        /\ Len(new) = Len(lst)
        /\ new[i] = diary
        /\ \A n \in DOMAIN lst : n # i => new[n] = lst[n]
        /\ KeyOrder(r.diaries) = KeyOrder(diaries)
        /\ \A other \in BookIds \ {diary.book_id} :
                StoredList(r.diaries, other) = StoredList(diaries, other)
        /\ r.books = books
        /\ r.saved # "none"

RECURSIVE AllDiaries(_)
AllDiaries(drs) ==
    IF drs = <<>> THEN <<>> ELSE Head(drs)[2] \o AllDiaries(Tail(drs))

\* what C18 states of a delete_diary that finds a match, apart from
\* persistence
DeleteDiaryEffect(diary_id, r) ==
    LET all == AllDiaries(diaries)
        i   == CHOOSE n \in DOMAIN all :
                    /\ all[n].id = diary_id
                    /\ \A m \in 1..(n - 1) : all[m].id # diary_id
    IN  /\ r.ret = "True"
        /\ ~r.raised
        /\ AllDiaries(r.diaries) = SubSeq(all, 1, i - 1) \o SubSeq(all, i + 1, Len(all))
        /\ TotalDiaries(r.diaries) = TotalDiaries(diaries) - 1
        /\ KeyOrder(r.diaries) = KeyOrder(diaries)
        /\ \A k \in DOMAIN diaries :
                Len(diaries[k][2]) - Len(r.diaries[k][2]) \in {0, 1}
        /\ r.books = books
        /\ r.saved # "none"

C20_InsertionOrder ==
    LET keys == KeyOrder(books)
        Ids(lst) == [i \in DOMAIN lst |-> lst[i].id]
        Without(id) == SelectSeq(keys, LAMBDA k : k # id)
    IN  /\ Ids(get_all_books(books)) = keys
        /\ \A book \in BookInputs, io \in IoOutcomes :
            /\ Ids(get_all_books(add_book(books, diaries, file, book, io).books))
                  = IF DictHas(books, book.id) THEN keys ELSE Append(keys, book.id)
            /\ Ids(get_all_books(update_book(books, diaries, file, book, io).books)) = keys
            /\ LET d == delete_book(books, diaries, file, book.id, io)
                   a == add_book(d.books, d.diaries, d.file, book, io)
               IN  /\ Ids(get_all_books(d.books)) = Without(book.id)
                   /\ Ids(get_all_books(a.books)) = Append(Without(book.id), book.id)

\* the book added last collided with the second of two stored books and is
\* in its place
C20_Witness ==
    /\ last.op = "add_book"
    /\ KeyOrder(books) = <<"b2", "b1">>
    /\ books[1][2].title = "Emma"
    /\ fails = 0
    /\ file = SavedFile(books, diaries)

\* the mutating method succeeded: it returned an id or true
Succeeded(r) == ~r.raised /\ r.ret # "False"

\* C21: while no file write fails, a mutating method that succeeds calls
\* save_data once and leaves in the file the serialization of the books and
\* diaries then in memory; a mutating method that does not succeed, and
\* every read, leave the file as it is.
C21_PersistOnSuccess ==
    /\ [](fails = 0 =>
            /\ last.saved = "true" => file = SavedFile(books, diaries)
            /\ \A r \in MutationOutcomes("ok") :
                 IF Succeeded(r)
                 THEN r.saved = "true" /\ r.file = SavedFile(r.books, r.diaries)
                 ELSE r.saved = "none" /\ r.file = file)
    /\ [][last'.saved = "none" => file' = file]_vars

\* no write has failed and add_diary has just stored a second diary: the
\* file holds both
C21_Witness ==
    /\ fails = 0
    /\ last.op = "add_diary"
    /\ last.out = "ok"
    /\ last.saved = "true"
    /\ TotalDiaries(diaries) = MaxDiaries
    /\ file = SavedFile(books, diaries)

\* C22: started on an empty store, the keys of diaries are the keys of
\* books and every diary stored in the list of a book has the book_id of
\* that book, so every stored diary belongs to a stored book.
C22_ReferentialIntegrity ==
    /\ DictKeys(diaries) = DictKeys(books)
    /\ \A k \in DOMAIN diaries :
         \A i \in DOMAIN diaries[k][2] :
            /\ diaries[k][2][i].book_id = diaries[k][1]
            /\ get_book(books, diaries[k][2][i].book_id) # <<>>

\* delete_book has removed one of two books, with its list, and a diary of
\* the other book remains
C22_Witness ==
    /\ last.op = "delete_book"
    /\ last.out = "ok"
    /\ Len(books) = 1
    /\ Len(diaries) = 1
    /\ TotalDiaries(diaries) >= 1

\* C23: whenever delete_diary(id) returns true, get_diary(id) called next
\* returns nothing and delete_diary(id) called again returns false.
C23_Original ==
    \A diary_id \in DiaryIds, io \in IoOutcomes :
        LET r == delete_diary(books, diaries, file, diary_id, io)
        IN  r.ret = "True" =>
                /\ get_diary(r.diaries, diary_id) = <<>>
                /\ \A io2 \in IoOutcomes :
                     delete_diary(r.books, r.diaries, r.file, diary_id, io2).ret = "False"

\* C24: whenever save_data returns false the file is what it was before the
\* call: the content of the last successful save, complete and loadable, or
\* no file when there was none.
C24_Original ==
    \A io \in IoOutcomes :
        LET s == save_data(books, diaries, file, io)
        IN  ~s.ret =>
                /\ s.file = file
                /\ last.saved = "true" => Loadable(s.file)

====
